---- MODULE Spec2Model ----
(***************************************************************************)
(* gh-skyline: the command layer (cmd/root.go), the generation driver      *)
(* (cmd/skyline/skyline.go) and the helpers of internal/utils/utils.go.    *)
(*                                                                         *)
(* Strings are sequences of one-character strings, so that formatting      *)
(* (fmt.Sprintf, Time.Format) and parsing (strconv.Atoi, strings.Split,    *)
(* time.Parse) are computed character by character.  Dates are records     *)
(* [y, m, d] in the proleptic Gregorian calendar; the clock is read in UTC *)
(* and stays fixed during one process.                                     *)
(***************************************************************************)
EXTENDS Integers, Sequences, FiniteSets, TLC

VARIABLES
    now,          \* time.Now(), as a date
    yearRange, user, full, debug, web, artOnly, output, yearToDate, until,
                  \* the package-level command variables of cmd/root.go
    changed,      \* the flags pflag has marked Changed
    pc,           \* position of the process
    ret,          \* what the command returned: "none" while running
    caller,       \* who entered the command: "cobra" or "test"
    runs,         \* how many times handleSkylineCommand has been entered
    yearRange0,   \* yearRange on entry to the current handleSkylineCommand
    startYear, endYear, targetUser, isYTD, endDate, year,
                  \* locals of GenerateSkyline
    allContributions, \* the grids collected so far
    fetchLog,     \* the calls made to the GitHub client for contributions
    printed,      \* what the ASCII preview printed
    outputPath,   \* the value of utils.GenerateOutputFilename, once computed
    stlCalls,     \* the calls made to the stl package
    profileCall,  \* what openGitHubProfile did when the handler called it
    unitIn, unitOut   \* arguments and result of a helper called on its own

vars == <<now, yearRange, user, full, debug, web, artOnly, output, yearToDate,
          until, changed, pc, ret, caller, runs, yearRange0, startYear, endYear,
          targetUser, isYTD, endDate, year, allContributions, fetchLog,
          printed, outputPath, stlCalls, profileCall, unitIn, unitOut>>

cmdVars == <<yearRange, user, full, debug, web, artOnly, output, yearToDate, until>>
genVars == <<startYear, endYear, targetUser, isYTD, endDate, year,
             allContributions, fetchLog, printed, outputPath, stlCalls>>
unitVars == <<unitIn, unitOut>>

----------------------------------------------------------------------------
(* Bounds of the model *)

\* how many times one process enters handleSkylineCommand
MaxRuns == 2
\* the longest response given to convertResponseToGrid on its own
MaxWeeks == 3
MaxDays == 2

----------------------------------------------------------------------------
(* Strings *)

DigitChars == <<"0", "1", "2", "3", "4", "5", "6", "7", "8", "9">>

IsDigit(c) == \E i \in 1..10 : DigitChars[i] = c

DigitVal(c) == (CHOOSE i \in 1..10 : DigitChars[i] = c) - 1

\* the decimal digits of a natural number
RECURSIVE NatStr(_)
NatStr(n) == IF n < 10 THEN <<DigitChars[n + 1]>>
             ELSE NatStr(n \div 10) \o <<DigitChars[(n % 10) + 1]>>

\* fmt.Sprintf("%d", n)
Itoa(n) == IF n < 0 THEN <<"-">> \o NatStr(0 - n) ELSE NatStr(n)

\* fmt.Sprintf("%0<w>d", n) for n >= 0
RECURSIVE PadLeft(_, _)
PadLeft(s, w) == IF Len(s) >= w THEN s ELSE PadLeft(<<"0">> \o s, w)

RECURSIVE DigitsVal(_)
DigitsVal(s) == IF s = <<>> THEN 0
                ELSE 10 * DigitsVal(SubSeq(s, 1, Len(s) - 1)) + DigitVal(s[Len(s)])

AllDigits(s) == \A i \in 1..Len(s) : IsDigit(s[i])

\* strconv.Atoi: an optional sign, then one or more decimal digits
Atoi(s) ==
    LET signed == s # <<>> /\ s[1] \in {"+", "-"}
        body   == IF signed THEN Tail(s) ELSE s
    IN  IF body = <<>> \/ ~AllDigits(body)
        THEN [err |-> TRUE, val |-> 0]
        ELSE [err |-> FALSE,
              val |-> IF signed /\ s[1] = "-" THEN 0 - DigitsVal(body)
                      ELSE DigitsVal(body)]

\* strings.Contains(s, c) for a one-character c
Contains(s, c) == \E i \in 1..Len(s) : s[i] = c

\* strings.Split(s, c) for a one-character c
RECURSIVE Split(_, _)
Split(s, c) ==
    IF ~Contains(s, c) THEN <<s>>
    ELSE LET i == CHOOSE k \in 1..Len(s) : s[k] = c /\ \A j \in 1..(k - 1) : s[j] # c
         IN  <<SubSeq(s, 1, i - 1)>> \o Split(SubSeq(s, i + 1, Len(s)), c)

HasSuffix(s, suf) ==
    Len(s) >= Len(suf) /\ SubSeq(s, Len(s) - Len(suf) + 1, Len(s)) = suf

HasPrefix(s, pre) == Len(s) >= Len(pre) /\ SubSeq(s, 1, Len(pre)) = pre

----------------------------------------------------------------------------
(* Dates *)

IsLeap(y) == (y % 4 = 0 /\ y % 100 # 0) \/ y % 400 = 0

DaysIn(y, m) == IF m = 2 THEN (IF IsLeap(y) THEN 29 ELSE 28)
                ELSE IF m \in {4, 6, 9, 11} THEN 30 ELSE 31

Date(y, m, d) == [y |-> y, m |-> m, d |-> d]

\* t.After(u), both at day resolution: a parsed date is midnight UTC
After(t, u) ==
    \/ t.y > u.y
    \/ t.y = u.y /\ t.m > u.m
    \/ t.y = u.y /\ t.m = u.m /\ t.d > u.d

\* t.AddDate(0, -12, 0): the same month and day one year earlier, and a day
\* past the end of that month rolls over into the next month
AddDate12(t) ==
    IF t.d <= DaysIn(t.y - 1, t.m) THEN Date(t.y - 1, t.m, t.d)
    ELSE Date(t.y - 1, t.m + 1, t.d - DaysIn(t.y - 1, t.m))

\* time.Parse("2006-01-02", s)
ParseDate(s) ==
    LET shape == /\ Len(s) = 10
                 /\ s[5] = "-" /\ s[8] = "-"
                 /\ AllDigits(SubSeq(s, 1, 4))
                 /\ AllDigits(SubSeq(s, 6, 7))
                 /\ AllDigits(SubSeq(s, 9, 10))
        y == DigitsVal(SubSeq(s, 1, 4))
        m == DigitsVal(SubSeq(s, 6, 7))
        d == DigitsVal(SubSeq(s, 9, 10))
    IN  IF shape /\ m \in 1..12 /\ d >= 1 /\ d <= DaysIn(y, m)
        THEN [err |-> FALSE, t |-> Date(y, m, d)]
        ELSE [err |-> TRUE, t |-> Date(1, 1, 1)]

\* t.Format("2006-01-02")
FormatDate(t) ==
    PadLeft(NatStr(t.y), 4) \o <<"-">> \o PadLeft(NatStr(t.m), 2)
        \o <<"-">> \o PadLeft(NatStr(t.d), 2)

----------------------------------------------------------------------------
(* internal/utils/utils.go *)

githubLaunchYear == 2008

\* validateYearRange without its test that the start year is not after the end year
validateYearRange_NoOrderCheck(s, e, clock) == s < githubLaunchYear \/ e > clock.y

\* validateYearRange: TRUE when it returns an error
validateYearRange(s, e, clock) ==
    IF s < githubLaunchYear \/ e > clock.y THEN TRUE
    ELSE s > e

ParseYearRange(str, clock) ==
    IF Contains(str, "-")
    THEN LET parts == Split(str, "-")
         IN  IF Len(parts) # 2 THEN [err |-> TRUE, s |-> 0, e |-> 0]
             ELSE IF Atoi(parts[1]).err THEN [err |-> TRUE, s |-> 0, e |-> 0]
             ELSE IF Atoi(parts[2]).err THEN [err |-> TRUE, s |-> 0, e |-> 0]
             ELSE [err |-> validateYearRange(Atoi(parts[1]).val, Atoi(parts[2]).val, clock),
                   s |-> Atoi(parts[1]).val, e |-> Atoi(parts[2]).val]
    ELSE IF Atoi(str).err THEN [err |-> TRUE, s |-> 0, e |-> 0]
         ELSE [err |-> validateYearRange(Atoi(str).val, Atoi(str).val, clock),
               s |-> Atoi(str).val, e |-> Atoi(str).val]


\* fmt.Sprintf("%d-%d", a, b)
YearRangeStr(a, b) == Itoa(a) \o <<"-">> \o Itoa(b)

ContributionsInfix == <<"-", "c", "o", "n", "t", "r", "i", "b", "u", "t", "i", "o", "n", "s", "-">>
YtdInfix == <<"y", "t", "d", "-">>
StlSuffix == <<".", "s", "t", "l">>

\* GenerateOutputFilename naming a YTD file after today whatever ytdEnd is
GenerateOutputFilename_TodayOnly(username, s, e, customPath, ytdEnd, clock) ==
    IF customPath # <<>> THEN customPath
    ELSE IF e = clock.y /\ s = AddDate12(clock).y
    THEN username \o ContributionsInfix \o YtdInfix \o FormatDate(clock) \o StlSuffix
    ELSE IF s = e
    THEN username \o ContributionsInfix \o Itoa(s) \o StlSuffix
    ELSE username \o ContributionsInfix \o Itoa(s) \o <<"-">> \o Itoa(e) \o StlSuffix

GenerateOutputFilename(username, s, e, customPath, ytdEnd, clock) ==
    IF customPath # <<>> THEN customPath
    ELSE IF e = clock.y /\ s = AddDate12(clock).y
    THEN LET end == IF ytdEnd # <<>> /\ ~ParseDate(ytdEnd).err
                    THEN ParseDate(ytdEnd).t ELSE clock
         IN  username \o ContributionsInfix \o YtdInfix \o FormatDate(end) \o StlSuffix
    ELSE IF s = e
    THEN username \o ContributionsInfix \o Itoa(s) \o StlSuffix
    ELSE username \o ContributionsInfix \o Itoa(s) \o <<"-">> \o Itoa(e) \o StlSuffix

----------------------------------------------------------------------------
(* Inputs *)

\* the clocks a process may start under: an ordinary day and a leap day
NowSet == {Date(2010, 3, 15), Date(2012, 2, 29)}

\* values given to --year
YearArgs(clock) ==
    {Itoa(clock.y), Itoa(clock.y - 1), Itoa(githubLaunchYear - 1), Itoa(clock.y + 1),
     YearRangeStr(clock.y - 1, clock.y), YearRangeStr(clock.y - 2, clock.y),
     YearRangeStr(clock.y - 2, clock.y - 1), YearRangeStr(clock.y, clock.y - 1),
     <<"x">>}

\* values given to --until
UntilArgs(clock) ==
    {<<>>,
     FormatDate(clock), FormatDate(Date(clock.y, 1, 1)),
     FormatDate(Date(clock.y - 1, 12, 31)), FormatDate(Date(githubLaunchYear, 6, 1)),
     FormatDate(Date(clock.y + 1, 1, 1)),
     Itoa(clock.y) \o <<"/", "0", "3", "/", "0", "1">>,
     Itoa(clock.y) \o <<"-", "0", "2", "-", "3", "0">>}

UserArgs == {<<>>, <<"u">>}
AuthUser == <<"a">>
OutputArgs == {<<>>, <<"m">>, <<"m">> \o StlSuffix}
JoinYears(clock) == {githubLaunchYear, clock.y - 1, clock.y}

ExclusiveFlags == {"year", "year-to-date", "full"}
TrackedFlags == ExclusiveFlags \cup {"until"}

Args(clock) ==
    [given : SUBSET TrackedFlags, year : YearArgs(clock), until : UntilArgs(clock),
     web : BOOLEAN, artOnly : BOOLEAN, debug : BOOLEAN,
     user : UserArgs, output : OutputArgs]

NoDate == Date(0, 0, 0)

----------------------------------------------------------------------------
(* State after construction: init() has run initFlags *)

GenInit ==
    /\ startYear = 0 /\ endYear = 0 /\ targetUser = <<>> /\ isYTD = FALSE
    /\ endDate = NoDate /\ year = 0 /\ allContributions = <<>> /\ fetchLog = <<>>
    /\ printed = <<>> /\ outputPath = <<>> /\ stlCalls = <<>>

Init ==
    /\ now \in NowSet
    /\ yearRange = Itoa(now.y)
    /\ user = <<>> /\ full = FALSE /\ debug = FALSE /\ web = FALSE
    /\ artOnly = FALSE /\ output = <<>> /\ yearToDate = FALSE /\ until = <<>>
    /\ changed = {}
    /\ pc = "idle" /\ ret = "none" /\ runs = 0 /\ caller = "none"
    /\ yearRange0 = <<>>
    /\ GenInit
    /\ profileCall = <<>>
    /\ unitIn = <<>> /\ unitOut = <<>>


----------------------------------------------------------------------------
(* cmd/root.go: the cobra command *)

Return(r) == pc' = "done" /\ ret' = r

ResetGen ==
    /\ startYear' = 0 /\ endYear' = 0 /\ targetUser' = <<>> /\ isYTD' = FALSE
    /\ endDate' = NoDate /\ year' = 0 /\ allContributions' = <<>> /\ fetchLog' = <<>>
    /\ printed' = <<>> /\ outputPath' = <<>> /\ stlCalls' = <<>>

\* rootCmd.Execute: pflag stores the given flags in the command variables and
\* marks them Changed; a flag that is not given keeps its value
Execute ==
    /\ pc = "idle" /\ caller = "none"
    /\ \E a \in Args(now) :
        /\ yearRange' = IF "year" \in a.given THEN a.year ELSE yearRange
        /\ yearToDate' = ("year-to-date" \in a.given)
        /\ full' = ("full" \in a.given)
        /\ until' = IF "until" \in a.given THEN a.until ELSE until
        /\ web' = a.web /\ artOnly' = a.artOnly /\ debug' = a.debug
        /\ user' = a.user /\ output' = a.output
        /\ changed' = a.given
    /\ caller' = "cobra"
    /\ pc' = "prerun"
    /\ UNCHANGED <<now, ret, runs, yearRange0, genVars, unitVars, profileCall>>

\* rootCmd.PreRunE
PreRunE ==
    /\ pc = "prerun"
    /\ IF "until" \in changed /\ ~yearToDate
       THEN Return("err:until-needs-year-to-date")
       ELSE pc' = "flaggroups" /\ ret' = ret
    /\ UNCHANGED <<now, cmdVars, changed, caller, runs, yearRange0, genVars, unitVars, profileCall>>

\* the groups with the third MarkFlagsMutuallyExclusive call left out
ExclusiveGroups_TwoOnly == {{"year", "year-to-date"}, {"year", "full"}}

\* the groups given to MarkFlagsMutuallyExclusive
ExclusiveGroups == {{"year", "year-to-date"}, {"year", "full"}, {"full", "year-to-date"}}

\* cobra's validation of the flag groups, before RunE
ValidateFlagGroups ==
    /\ pc = "flaggroups"
    /\ IF \E g \in ExclusiveGroups : Cardinality(g \cap changed) > 1
       THEN Return("err:mutually-exclusive")
       ELSE pc' = "handler" /\ ret' = ret
    /\ UNCHANGED <<now, cmdVars, changed, caller, runs, yearRange0, genVars, unitVars, profileCall>>

\* TestYearToDatePeriodCalculation: the test sets three command variables and
\* calls handleSkylineCommand itself, once per case
TestCall ==
    /\ <<pc, caller>> \in {<<"idle", "none">>, <<"done", "test">>}
    /\ runs < MaxRuns
    /\ \E u \in UntilArgs(now) : until' = u
    /\ yearToDate' = TRUE
    /\ yearRange' = <<>>
    /\ caller' = "test"
    /\ pc' = "handler" /\ ret' = "none"
    /\ ResetGen
    /\ profileCall' = <<>>
    /\ UNCHANGED <<now, user, full, debug, web, artOnly, output, changed, runs,
                   yearRange0, unitVars>>

\* the year-to-date block taking the period from the clock whatever --until says
YearToDateRange_IgnoresUntil(untilStr, clock, oldRange) ==
    IF untilStr # <<>> /\ ParseDate(untilStr).err
    THEN [err |-> "err:until-format", range |-> oldRange]
    ELSE IF untilStr # <<>> /\ After(ParseDate(untilStr).t, clock)
    THEN [err |-> "err:until-future", range |-> oldRange]
    ELSE [err |-> "", range |-> YearRangeStr(AddDate12(clock).y, clock.y)]

\* the year-to-date block without its test for a date in the future
YearToDateRange_NoFutureCheck(untilStr, clock, oldRange) ==
    IF untilStr # <<>> /\ ParseDate(untilStr).err
    THEN [err |-> "err:until-format", range |-> oldRange]
    ELSE LET end == IF untilStr # <<>> THEN ParseDate(untilStr).t ELSE clock
         IN  [err |-> "", range |-> YearRangeStr(AddDate12(end).y, end.y)]

\* the year-to-date block clearing the year range when it rejects --until
YearToDateRange_ClearsOnError(untilStr, clock, oldRange) ==
    IF untilStr # <<>> /\ ParseDate(untilStr).err
    THEN [err |-> "err:until-format", range |-> <<>>]
    ELSE IF untilStr # <<>> /\ After(ParseDate(untilStr).t, clock)
    THEN [err |-> "err:until-future", range |-> <<>>]
    ELSE LET end == IF untilStr # <<>> THEN ParseDate(untilStr).t ELSE clock
         IN  [err |-> "", range |-> YearRangeStr(AddDate12(end).y, end.y)]

\* the year-to-date block of handleSkylineCommand: the error it returns
\* ("" when none) and the year range it leaves in yearRange
YearToDateRange(untilStr, clock, oldRange) ==
    IF untilStr # <<>> /\ ParseDate(untilStr).err
    THEN [err |-> "err:until-format", range |-> oldRange]
    ELSE IF untilStr # <<>> /\ After(ParseDate(untilStr).t, clock)
    THEN [err |-> "err:until-future", range |-> oldRange]
    ELSE LET end == IF untilStr # <<>> THEN ParseDate(untilStr).t ELSE clock
         IN  [err |-> "", range |-> YearRangeStr(AddDate12(end).y, end.y)]

\* the hosts auth.DefaultHost may report: github.com when no other host is
\* configured, or the host of a GitHub Enterprise server
GithubCom == <<"g", "i", "t", "h", "u", "b", ".", "c", "o", "m">>
DefaultHosts == {GithubCom, <<"g", "h", "e", ".", "i", "o">>}
HttpsScheme == <<"h", "t", "t", "p", "s", ":", "/", "/">>

\* openGitHubProfile taking the authenticated user whenever the client has one
OpenGitHubProfile_PrefersAuthUser(target, authOk, authName, host, browseOk) ==
    IF ~authOk /\ target = <<>>
    THEN [err |-> "err:network", asked |-> TRUE, urls |-> <<>>]
    ELSE LET tu == IF authOk THEN authName ELSE target
         IN  [err |-> IF browseOk THEN "" ELSE "err:browse",
              asked |-> TRUE,
              urls |-> <<HttpsScheme \o host \o <<"/">> \o tu>>]

\* openGitHubProfile going on to the browser after the client has failed
OpenGitHubProfile_BrowsesOnClientError(target, authOk, authName, host, browseOk) ==
    LET tu == IF target = <<>> /\ authOk THEN authName ELSE target
    IN  [err |-> IF browseOk THEN "" ELSE "err:browse",
         asked |-> (target = <<>>),
         urls |-> <<HttpsScheme \o host \o <<"/">> \o tu>>]

\* openGitHubProfile: the error it returns ("" when none), whether the client
\* was asked for the authenticated user, and the URLs given to Browse
OpenGitHubProfile(target, authOk, authName, host, browseOk) ==
    IF target = <<>> /\ ~authOk
    THEN [err |-> "err:network", asked |-> TRUE, urls |-> <<>>]
    ELSE LET tu == IF target = <<>> THEN authName ELSE target
         IN  [err |-> IF browseOk THEN "" ELSE "err:browse",
              asked |-> (target = <<>>),
              urls |-> <<HttpsScheme \o host \o <<"/">> \o tu>>]

\* the handler working out and validating the year range before it looks at
\* the web flag
handleSkylineCommand_WebAfterYearRange ==
    /\ pc = "handler"
    /\ runs' = runs + 1
    /\ yearRange0' = yearRange
    /\ \E logOk, clientOk, authOk, browseOk \in BOOLEAN, host \in DefaultHosts :
        IF debug /\ ~logOk
        THEN Return("err:log") /\ UNCHANGED <<yearRange, startYear, endYear, profileCall>>
        ELSE IF ~clientOk
        THEN Return("err:network") /\ UNCHANGED <<yearRange, startYear, endYear, profileCall>>
        ELSE LET ytd == YearToDateRange(until, now, yearRange)
                 range == IF yearToDate THEN ytd.range ELSE yearRange
                 parsed == ParseYearRange(range, now)
                 opened == OpenGitHubProfile(user, authOk, AuthUser, host, browseOk)
             IN  /\ yearRange' = range
                 /\ IF yearToDate /\ ytd.err # ""
                    THEN Return(ytd.err) /\ UNCHANGED <<startYear, endYear, profileCall>>
                    ELSE IF parsed.err
                    THEN Return("err:year-range")
                         /\ UNCHANGED <<startYear, endYear, profileCall>>
                    ELSE IF web
                    THEN /\ profileCall' = <<opened>>
                         /\ IF opened.err = "" THEN Return("nil")
                                               ELSE pc' = "exited" /\ ret' = "exit1"
                         /\ UNCHANGED <<startYear, endYear>>
                    ELSE /\ pc' = "generate" /\ ret' = "none"
                         /\ profileCall' = profileCall
                         /\ startYear' = parsed.s /\ endYear' = parsed.e
    /\ UNCHANGED <<now, user, full, debug, web, artOnly, output, yearToDate, until,
                   changed, caller, targetUser, isYTD, endDate, year, allContributions,
                   fetchLog, printed, outputPath, stlCalls, unitVars>>

handleSkylineCommand ==
    /\ pc = "handler"
    /\ runs' = runs + 1
    /\ yearRange0' = yearRange
    /\ \E logOk, clientOk, authOk, browseOk \in BOOLEAN, host \in DefaultHosts :
        IF debug /\ ~logOk
        THEN Return("err:log") /\ UNCHANGED <<yearRange, startYear, endYear, profileCall>>
        ELSE IF ~clientOk
        THEN Return("err:network") /\ UNCHANGED <<yearRange, startYear, endYear, profileCall>>
        ELSE IF web
        THEN LET opened == OpenGitHubProfile(user, authOk, AuthUser, host, browseOk)
             IN  /\ profileCall' = <<opened>>
                 /\ IF opened.err = "" THEN Return("nil")
                                       ELSE pc' = "exited" /\ ret' = "exit1"
                 /\ UNCHANGED <<yearRange, startYear, endYear>>
        ELSE LET ytd == YearToDateRange(until, now, yearRange)
                 range == IF yearToDate THEN ytd.range ELSE yearRange
                 parsed == ParseYearRange(range, now)
             IN  /\ yearRange' = range
                 /\ profileCall' = profileCall
                 /\ IF yearToDate /\ ytd.err # ""
                    THEN Return(ytd.err) /\ UNCHANGED <<startYear, endYear>>
                    ELSE IF parsed.err
                    THEN Return("err:year-range") /\ UNCHANGED <<startYear, endYear>>
                    ELSE /\ pc' = "generate" /\ ret' = "none"
                         /\ startYear' = parsed.s /\ endYear' = parsed.e
    /\ UNCHANGED <<now, user, full, debug, web, artOnly, output, yearToDate, until,
                   changed, caller, targetUser, isYTD, endDate, year, allContributions,
                   fetchLog, printed, outputPath, stlCalls, unitVars>>

----------------------------------------------------------------------------
(* cmd/skyline/skyline.go *)

YearGrid(y) == [kind |-> "year", year |-> y, from |-> NoDate, to |-> NoDate]
RangeGrid(from, to) == [kind |-> "range", year |-> 0, from |-> from, to |-> to]

\* the YTD test looking at the end year only
SkylineIsYTD_EndYearOnly(s, e, clock) == e = clock.y

\* the YTD test of GenerateSkyline
SkylineIsYTD(s, e, clock) == e = clock.y /\ s = AddDate12(clock).y

\* GenerateSkyline up to the choice between the two fetch paths
GenerateSkyline ==
    /\ pc = "generate"
    /\ \E clientOk, logOk, authOk, joinOk \in BOOLEAN, joinYear \in JoinYears(now) :
        LET tu == IF user = <<>> THEN AuthUser ELSE user
            s  == IF full THEN joinYear ELSE startYear
            e  == IF full THEN now.y ELSE endYear
            ytd == SkylineIsYTD(s, e, now)
            keep == UNCHANGED <<startYear, endYear, targetUser, isYTD, endDate, year>>
        IN  IF ~clientOk THEN Return("err:network") /\ keep
            ELSE IF user = <<>> /\ ~logOk THEN Return("err:log") /\ keep
            ELSE IF user = <<>> /\ ~authOk THEN Return("err:network") /\ keep
            ELSE IF full /\ ~joinOk
            THEN /\ Return("err:network") /\ targetUser' = tu
                 /\ UNCHANGED <<startYear, endYear, isYTD, endDate, year>>
            ELSE /\ targetUser' = tu /\ startYear' = s /\ endYear' = e /\ isYTD' = ytd
                 /\ IF ytd /\ until # <<>> /\ ParseDate(until).err
                    THEN Return("err:ytd-end-format") /\ UNCHANGED <<endDate, year>>
                    ELSE IF ytd /\ until # <<>> /\ After(ParseDate(until).t, now)
                    THEN Return("err:ytd-end-future") /\ UNCHANGED <<endDate, year>>
                    ELSE IF ytd
                    THEN /\ endDate' = IF until # <<>> THEN ParseDate(until).t ELSE now
                         /\ pc' = "fetch_range" /\ ret' = ret /\ year' = year
                    ELSE /\ year' = s /\ endDate' = endDate /\ ret' = ret
                         /\ pc' = IF s <= e THEN "fetch_year" ELSE "stl"
    /\ UNCHANGED <<now, cmdVars, changed, caller, runs, yearRange0, allContributions,
                   fetchLog, printed, outputPath, stlCalls, unitVars, profileCall>>

\* the YTD branch: one continuous period, fetched and previewed
FetchRange ==
    /\ pc = "fetch_range"
    /\ LET startDate == AddDate12(endDate)
           grid == RangeGrid(startDate, endDate)
       IN  /\ fetchLog' = Append(fetchLog, grid)
           /\ \E fetchOk, asciiOk, warnOk \in BOOLEAN :
               IF ~fetchOk
               THEN Return("err:fetch") /\ UNCHANGED <<allContributions, printed>>
               ELSE /\ allContributions' = Append(allContributions, grid)
                    /\ IF asciiOk
                       THEN /\ printed' = Append(printed,
                                   [label |-> YearRangeStr(startDate.y, endDate.y), full |-> TRUE])
                            /\ pc' = "stl" /\ ret' = ret
                       ELSE /\ printed' = printed
                            /\ IF warnOk THEN pc' = "stl" /\ ret' = ret
                               ELSE Return("err:log")
    /\ UNCHANGED <<now, cmdVars, changed, caller, runs, yearRange0, startYear, endYear,
                   targetUser, isYTD, endDate, year, outputPath, stlCalls, unitVars, profileCall>>

\* the per-year loop going on to the next year when a fetch fails
FetchYear_ContinuesOnError ==
    /\ pc = "fetch_year"
    /\ fetchLog' = Append(fetchLog, YearGrid(year))
    /\ \E fetchOk, asciiOk, warnOk \in BOOLEAN :
        /\ allContributions' = IF fetchOk THEN Append(allContributions, YearGrid(year))
                               ELSE allContributions
        /\ IF fetchOk /\ ~asciiOk /\ ~warnOk
           THEN Return("err:log") /\ UNCHANGED <<printed, year>>
           ELSE /\ printed' = IF fetchOk /\ asciiOk
                              THEN Append(printed, [label |-> Itoa(year), full |-> year = startYear])
                              ELSE printed
                /\ year' = year + 1
                /\ pc' = IF year + 1 <= endYear THEN "fetch_year" ELSE "stl"
                /\ ret' = ret
    /\ UNCHANGED <<now, cmdVars, changed, caller, runs, yearRange0, startYear, endYear,
                   targetUser, isYTD, endDate, outputPath, stlCalls, unitVars, profileCall>>

\* the per-year loop returning an error as soon as a preview fails
FetchYear_AbortsOnPreviewError ==
    /\ pc = "fetch_year"
    /\ fetchLog' = Append(fetchLog, YearGrid(year))
    /\ \E fetchOk, asciiOk, warnOk \in BOOLEAN :
        IF ~fetchOk
        THEN Return("err:fetch") /\ UNCHANGED <<allContributions, printed, year>>
        ELSE /\ allContributions' = Append(allContributions, YearGrid(year))
             /\ IF ~asciiOk
                THEN Return(IF warnOk THEN "err:ascii" ELSE "err:log")
                     /\ UNCHANGED <<printed, year>>
                ELSE /\ printed' = Append(printed, [label |-> Itoa(year), full |-> year = startYear])
                     /\ year' = year + 1
                     /\ pc' = IF year + 1 <= endYear THEN "fetch_year" ELSE "stl"
                     /\ ret' = ret
    /\ UNCHANGED <<now, cmdVars, changed, caller, runs, yearRange0, startYear, endYear,
                   targetUser, isYTD, endDate, outputPath, stlCalls, unitVars, profileCall>>

\* one iteration of the per-year loop
FetchYear ==
    /\ pc = "fetch_year"
    /\ fetchLog' = Append(fetchLog, YearGrid(year))
    /\ \E fetchOk, asciiOk, warnOk \in BOOLEAN :
        IF ~fetchOk
        THEN Return("err:fetch") /\ UNCHANGED <<allContributions, printed, year>>
        ELSE /\ allContributions' = Append(allContributions, YearGrid(year))
             /\ IF ~asciiOk /\ ~warnOk
                THEN Return("err:log") /\ UNCHANGED <<printed, year>>
                ELSE /\ printed' = IF asciiOk
                                   THEN Append(printed, [label |-> Itoa(year), full |-> year = startYear])
                                   ELSE printed
                     /\ year' = year + 1
                     /\ pc' = IF year + 1 <= endYear THEN "fetch_year" ELSE "stl"
                     /\ ret' = ret
    /\ UNCHANGED <<now, cmdVars, changed, caller, runs, yearRange0, startYear, endYear,
                   targetUser, isYTD, endDate, outputPath, stlCalls, unitVars, profileCall>>

\* the call to the stl package leaving the YTD test out
StlCall_IgnoresYTD(grids, path, ytd, tu, s, e) ==
    IF Len(grids) = 1
    THEN [fn |-> "GenerateSTL", grids |-> <<grids[1]>>, path |-> path, user |-> tu,
          startYear |-> s, endYear |-> s]
    ELSE [fn |-> "GenerateSTLRange", grids |-> grids, path |-> path, user |-> tu,
          startYear |-> s, endYear |-> e]

\* the call GenerateSkyline makes to the stl package for the collected grids
StlCall(grids, path, ytd, tu, s, e) ==
    IF Len(grids) = 1 /\ ~ytd
    THEN [fn |-> "GenerateSTL", grids |-> <<grids[1]>>, path |-> path, user |-> tu,
          startYear |-> s, endYear |-> s]
    ELSE [fn |-> "GenerateSTLRange", grids |-> grids, path |-> path, user |-> tu,
          startYear |-> s, endYear |-> e]

\* the loop of convertResponseToGrid from week i on
RECURSIVE FillGrid(_, _, _)
FillGrid(grid, weeks, i) ==
    IF i > Len(weeks) THEN grid
    ELSE FillGrid([grid EXCEPT ![i] = weeks[i].ContributionDays], weeks, i + 1)

\* the conversion putting the weeks in the grid last week first
convertResponseToGrid_Reversed(weeks) ==
    [i \in 1..Len(weeks) |-> weeks[Len(weeks) + 1 - i].ContributionDays]

\* convertResponseToGrid, given the weeks of the response's calendar
convertResponseToGrid(weeks) ==
    FillGrid([i \in 1..Len(weeks) |-> <<>>], weeks, 1)

\* the end of GenerateSkyline writing the STL file whatever artOnly says
WriteSTL_IgnoresArtOnly ==
    /\ pc = "stl"
    /\ LET path == GenerateOutputFilename(targetUser, startYear, endYear, output, until, now)
       IN  /\ outputPath' = path
           /\ stlCalls' = Append(stlCalls,
                  StlCall(allContributions, path, isYTD, targetUser, startYear, endYear))
           /\ \E stlOk \in BOOLEAN : Return(IF stlOk THEN "nil" ELSE "err:stl")
    /\ UNCHANGED <<now, cmdVars, changed, caller, runs, yearRange0, startYear, endYear,
                   targetUser, isYTD, endDate, year, allContributions, fetchLog, printed,
                   unitVars, profileCall>>

\* the end of GenerateSkyline: the file name and the STL file
WriteSTL ==
    /\ pc = "stl"
    /\ IF artOnly
       THEN Return("nil") /\ UNCHANGED <<outputPath, stlCalls>>
       ELSE LET path == GenerateOutputFilename(targetUser, startYear, endYear, output, until, now)
            IN  /\ outputPath' = path
                /\ stlCalls' = Append(stlCalls,
                       StlCall(allContributions, path, isYTD, targetUser, startYear, endYear))
                /\ \E stlOk \in BOOLEAN : Return(IF stlOk THEN "nil" ELSE "err:stl")
    /\ UNCHANGED <<now, cmdVars, changed, caller, runs, yearRange0, startYear, endYear,
                   targetUser, isYTD, endDate, year, allContributions, fetchLog, printed,
                   unitVars, profileCall>>

----------------------------------------------------------------------------
Next ==
    \/ Execute \/ PreRunE \/ ValidateFlagGroups \/ TestCall
    \/ handleSkylineCommand \/ GenerateSkyline \/ FetchRange \/ FetchYear \/ WriteSTL

Spec == Init /\ [][Next]_vars


----------------------------------------------------------------------------
(* The helpers of internal/utils called on their own *)

UnitYears(clock) == {githubLaunchYear - 1, githubLaunchYear, githubLaunchYear + 1,
                     clock.y - 1, clock.y, clock.y + 1}

\* year-range strings, each with the way it was written: kind "single" is the
\* integer a, kind "range" is the integers a and b around one "-", kind
\* "other" is neither
ParseInputs(clock) ==
    {[fn |-> "ParseYearRange", kind |-> "single", a |-> a, b |-> a, str |-> Itoa(a)]
        : a \in UnitYears(clock)}
    \cup {[fn |-> "ParseYearRange", kind |-> "single", a |-> a, b |-> a,
           str |-> <<"+">> \o Itoa(a)] : a \in UnitYears(clock)}
    \cup {[fn |-> "ParseYearRange", kind |-> "range", a |-> a, b |-> b,
           str |-> YearRangeStr(a, b)] : a \in UnitYears(clock), b \in UnitYears(clock)}
    \cup {[fn |-> "ParseYearRange", kind |-> "range", a |-> a, b |-> clock.y,
           str |-> Itoa(a) \o <<"-", "+">> \o Itoa(clock.y)] : a \in UnitYears(clock)}
    \cup {[fn |-> "ParseYearRange", kind |-> "other", a |-> 0, b |-> 0, str |-> str]
        : str \in {<<>>, <<"x">>, <<"-">>,
                   Itoa(clock.y) \o <<"x">>, <<" ">> \o Itoa(clock.y),
                   Itoa(clock.y) \o <<"-">>, <<"-">> \o Itoa(clock.y),
                   Itoa(clock.y) \o <<"-", "x">>, <<"x", "-">> \o Itoa(clock.y),
                   Itoa(clock.y) \o <<"-", "-">> \o Itoa(clock.y),
                   YearRangeStr(githubLaunchYear, clock.y - 1) \o <<"-">> \o Itoa(clock.y)}}

FilenameInputs(clock) ==
    {[fn |-> "GenerateOutputFilename", username |-> u, s |-> s, e |-> e,
      customPath |-> c, ytdEnd |-> y]
        : u \in {<<"u">>, <<"a", "-", "b">>},
          s \in {githubLaunchYear, clock.y - 2, clock.y - 1, clock.y},
          e \in {githubLaunchYear, clock.y - 1, clock.y},
          c \in OutputArgs, y \in UntilArgs(clock)}

ProfileInputs ==
    [fn : {"openGitHubProfile"}, targetUser : {<<>>, <<"u">>, <<"t", "u">>},
     authOk : BOOLEAN, authName : {<<"a">>, <<"a", "u">>},
     host : DefaultHosts, browseOk : BOOLEAN]

----------------------------------------------------------------------------
(* internal/stl/geometry: the text and image generators *)

\* the pixels of the off-screen canvas, as <<column, row>>
CanvasHeight == 2
Canvas == {<<0, 0>>, <<1, 0>>, <<0, 1>>}

InvalidRenderConfig(cfg) == cfg.voxelScale <= 0 \/ cfg.depth <= 0

\* text rendering that validates the voxel scale only
renderText_ScaleOnly(cfg) ==
    IF cfg.voxelScale <= 0 THEN [err |-> "ConfigError", boxes |-> {}]
    ELSE IF ~cfg.fontOk THEN [err |-> "FontError", boxes |-> {}]
    ELSE [err |-> "",
          boxes |-> {[x |-> p[1] * cfg.voxelScale,
                      y |-> (CanvasHeight - 1 - p[2]) * cfg.voxelScale,
                      size |-> cfg.voxelScale, height |-> cfg.depth] : p \in cfg.covered}]

\* renderText: one box per covered pixel, the row axis inverted; the mesh has
\* twelve triangles per box
renderText(cfg) ==
    IF InvalidRenderConfig(cfg) THEN [err |-> "ConfigError", boxes |-> {}]
    ELSE IF ~cfg.fontOk THEN [err |-> "FontError", boxes |-> {}]
    ELSE [err |-> "",
          boxes |-> {[x |-> p[1] * cfg.voxelScale,
                      y |-> (CanvasHeight - 1 - p[2]) * cfg.voxelScale,
                      size |-> cfg.voxelScale, height |-> cfg.depth] : p \in cfg.covered}]

\* the intensity of a pixel, in halves: 0, 1/2 or 1
IntensityLevels == 0..2

\* image rendering that gives an empty mesh for a file it cannot decode
renderImage_EmptyMeshOnBadFile(cfg) ==
    IF InvalidRenderConfig(cfg) THEN [err |-> "ConfigError", boxes |-> {}]
    ELSE IF cfg.file # "image" THEN [err |-> "", boxes |-> {}]
    ELSE [err |-> "",
          boxes |-> {[x |-> p[1] * cfg.voxelScale,
                      y |-> (CanvasHeight - 1 - p[2]) * cfg.voxelScale,
                      size |-> cfg.voxelScale, height2 |-> cfg.pixels[p] * cfg.depth]
                        : p \in {q \in DOMAIN cfg.pixels : cfg.pixels[q] * cfg.depth > 0}}]

\* renderImage: one box per pixel, its height (kept in halves, height2) the
\* pixel's intensity times the depth; pixels of height zero are skipped
renderImage(cfg) ==
    IF InvalidRenderConfig(cfg) THEN [err |-> "ConfigError", boxes |-> {}]
    ELSE IF cfg.file # "image" THEN [err |-> "IOError", boxes |-> {}]
    ELSE [err |-> "",
          boxes |-> {[x |-> p[1] * cfg.voxelScale,
                      y |-> (CanvasHeight - 1 - p[2]) * cfg.voxelScale,
                      size |-> cfg.voxelScale, height2 |-> cfg.pixels[p] * cfg.depth]
                        : p \in {q \in DOMAIN cfg.pixels : cfg.pixels[q] * cfg.depth > 0}}]

Triangles(mesh) == 12 * Cardinality(mesh.boxes)

TextInputs ==
    [fn : {"renderText"}, voxelScale : -1..2, depth : -1..1, fontOk : BOOLEAN,
     covered : SUBSET Canvas]

ImageInputs ==
    [fn : {"renderImage"}, voxelScale : 0..2, depth : 0..1,
     file : {"missing", "undecodable", "image"},
     pixels : [{<<0, 0>>, <<1, 0>>} -> IntensityLevels]]

SeqsUpTo(S, n) == UNION {[1..k -> S] : k \in 0..n}

\* responses: each week holds its days, a day being its contribution count
GridInputs ==
    [fn : {"convertResponseToGrid"},
     weeks : SeqsUpTo([ContributionDays : SeqsUpTo({0, 1}, MaxDays)], MaxWeeks)]

UnitInit ==
    /\ now \in NowSet
    /\ yearRange = Itoa(now.y)
    /\ user = <<>> /\ full = FALSE /\ debug = FALSE /\ web = FALSE
    /\ artOnly = FALSE /\ output = <<>> /\ yearToDate = FALSE /\ until = <<>>
    /\ changed = {}
    /\ pc = "idle" /\ ret = "none" /\ runs = 0 /\ caller = "none"
    /\ yearRange0 = <<>>
    /\ GenInit
    /\ profileCall = <<>>
    /\ unitIn \in ParseInputs(now) \cup FilenameInputs(now) \cup ProfileInputs
                  \cup TextInputs \cup ImageInputs \cup GridInputs
    /\ unitOut = <<>>

CallParseYearRange ==
    /\ unitIn.fn = "ParseYearRange" /\ unitOut = <<>>
    /\ unitOut' = <<ParseYearRange(unitIn.str, now)>>
    /\ UNCHANGED <<now, cmdVars, changed, pc, ret, caller, runs, yearRange0, genVars, unitIn, profileCall>>

CallGenerateOutputFilename ==
    /\ unitIn.fn = "GenerateOutputFilename" /\ unitOut = <<>>
    /\ unitOut' = <<GenerateOutputFilename(unitIn.username, unitIn.s, unitIn.e,
                                           unitIn.customPath, unitIn.ytdEnd, now)>>
    /\ UNCHANGED <<now, cmdVars, changed, pc, ret, caller, runs, yearRange0, genVars, unitIn, profileCall>>

CallOpenGitHubProfile ==
    /\ unitIn.fn = "openGitHubProfile" /\ unitOut = <<>>
    /\ unitOut' = <<OpenGitHubProfile(unitIn.targetUser, unitIn.authOk, unitIn.authName,
                                      unitIn.host, unitIn.browseOk)>>
    /\ UNCHANGED <<now, cmdVars, changed, pc, ret, caller, runs, yearRange0, genVars, unitIn, profileCall>>

CallRenderText ==
    /\ unitIn.fn = "renderText" /\ unitOut = <<>>
    /\ unitOut' = <<renderText(unitIn)>>
    /\ UNCHANGED <<now, cmdVars, changed, pc, ret, caller, runs, yearRange0, genVars, unitIn, profileCall>>

CallRenderImage ==
    /\ unitIn.fn = "renderImage" /\ unitOut = <<>>
    /\ unitOut' = <<renderImage(unitIn)>>
    /\ UNCHANGED <<now, cmdVars, changed, pc, ret, caller, runs, yearRange0, genVars, unitIn, profileCall>>

CallConvertResponseToGrid ==
    /\ unitIn.fn = "convertResponseToGrid" /\ unitOut = <<>>
    /\ unitOut' = <<convertResponseToGrid(unitIn.weeks)>>
    /\ UNCHANGED <<now, cmdVars, changed, pc, ret, caller, runs, yearRange0, genVars, unitIn, profileCall>>

UnitNext ==
    \/ CallParseYearRange
    \/ CallGenerateOutputFilename
    \/ CallOpenGitHubProfile
    \/ CallRenderText
    \/ CallRenderImage
    \/ CallConvertResponseToGrid

UnitSpec == UnitInit /\ [][UnitNext]_vars


----------------------------------------------------------------------------
(* Properties *)

RunPcs == {"handler", "generate", "fetch_range", "fetch_year", "stl"}
GenPcs == {"generate", "fetch_range", "fetch_year", "stl"}
Finished == pc \in {"done", "exited"} /\ runs >= 1
IsError(r) == r \notin {"none", "nil"}
FlagErrors == {"err:until-needs-year-to-date", "err:mutually-exclusive"}

\* the end date of the year-to-date period: --until when given, otherwise today
UntilDate == IF until # <<>> THEN ParseDate(until).t ELSE now
BadUntil == until # <<>> /\ (ParseDate(until).err \/ After(ParseDate(until).t, now))

\* C1: a run that wrote the STL file under an explicit output path used that
\* path with ".stl" appended when it did not end in ".stl", and unchanged when
\* it did.
C1_ExplicitPathGetsExtension ==
    (stlCalls # <<>> /\ output # <<>>) =>
        outputPath = IF HasSuffix(output, StlSuffix) THEN output ELSE output \o StlSuffix

\* C2: a successful --year-to-date --until D run, D well formed and not in the
\* future, made exactly one contributions request, for the continuous period
\* from D minus 12 months to D, and no per-year request.
C2_UntilIsOneContinuousPeriod ==
    (Finished /\ caller = "cobra" /\ ret = "nil" /\ ~web /\ yearToDate
        /\ until # <<>> /\ ~BadUntil) =>
        fetchLog = <<RangeGrid(AddDate12(UntilDate), UntilDate)>>

\* C3: a successful --year S-E run (no year-to-date, no full, STL wanted)
\* requested the years S, S+1, ..., E once each in ascending order and handed
\* exactly those E-S+1 grids, in that order, to the STL generation.
C3_YearRangeFetchedYearByYear ==
    (Finished /\ caller = "cobra" /\ ret = "nil" /\ ~web /\ ~artOnly
        /\ changed = {"year"}) =>
        LET r == ParseYearRange(yearRange, now)
        IN  /\ fetchLog = [i \in 1..(r.e - r.s + 1) |-> YearGrid(r.s + i - 1)]
            /\ Len(stlCalls) = 1
            /\ stlCalls[1].grids = fetchLog

\* C4: ParseYearRange returns no error exactly for a single integer year or two
\* integer years around one "-" with 2008 <= start <= end <= current year, and
\* then returns those years.
C4_ParseYearRange ==
    (unitOut # <<>> /\ unitIn.fn = "ParseYearRange") =>
        LET r == unitOut[1]
            valid == /\ unitIn.kind \in {"single", "range"}
                     /\ 2008 <= unitIn.a /\ unitIn.a <= unitIn.b /\ unitIn.b <= now.y
        IN  /\ r.err = ~valid
            /\ valid => r.s = unitIn.a /\ r.e = unitIn.b

C4_Witness ==
    /\ unitOut # <<>> /\ unitIn.fn = "ParseYearRange"
    /\ unitIn.kind = "range" /\ unitIn.a < unitIn.b /\ ~unitOut[1].err

C6_YearToDateRange ==
    (Finished /\ ret = "nil" /\ ~web /\ yearToDate) =>
        LET parts == Split(yearRange, "-")
        IN  /\ Len(parts) = 2
            /\ AllDigits(parts[1]) /\ AllDigits(parts[2])
            /\ DigitsVal(parts[2]) = UntilDate.y
            /\ DigitsVal(parts[1]) = AddDate12(UntilDate).y
            /\ startYear = AddDate12(UntilDate).y /\ endYear = UntilDate.y

C6_Witness ==
    /\ Finished /\ ret = "nil" /\ ~web /\ yearToDate
    /\ until # <<>> /\ UntilDate.y = now.y - 1

\* C7 as stated: in year-to-date mode a malformed or future --until makes
\* handleSkylineCommand return an error, leave yearRange as it was and start
\* no generation.
C7_BadUntilAlwaysAnError ==
    (Finished /\ yearToDate /\ BadUntil) =>
        /\ IsError(ret)
        /\ yearRange = yearRange0
        /\ fetchLog = <<>> /\ stlCalls = <<>> /\ outputPath = <<>>

\* C7 amended: in year-to-date mode with a non-empty --until that is malformed
\* or in the future, generation is never started and yearRange is left as it
\* was; an error is returned when the web flag is not set.
C7_BadUntilRejected ==
    (yearToDate /\ BadUntil) =>
        /\ pc \notin GenPcs
        /\ Finished =>
            /\ web \/ IsError(ret)
            /\ yearRange = yearRange0
            /\ fetchLog = <<>> /\ stlCalls = <<>> /\ outputPath = <<>>

C7_Witness ==
    /\ Finished /\ yearToDate /\ ~web
    /\ until # <<>> /\ ~ParseDate(until).err /\ After(ParseDate(until).t, now)
    /\ ret = "err:until-future"

\* a step of a run of handleSkylineCommand that changes no command variable
RunStepKeepsAll == (pc \in RunPcs) => UNCHANGED cmdVars

\* C8 as stated: no step of a run of handleSkylineCommand changes a command
\* variable.
C8_CommandVariablesKept == [][RunStepKeepsAll]_vars

\* a step of a run that changes at most yearRange, and that only when the
\* year-to-date block accepted the end date
RunStepRewritesYearRangeOnly ==
    (pc \in RunPcs) =>
        /\ UNCHANGED <<user, full, debug, web, artOnly, output, yearToDate, until>>
        /\ (yearRange' # yearRange) =>
            /\ pc = "handler" /\ yearToDate /\ ~web /\ ~BadUntil
            /\ yearRange' = Itoa(AddDate12(UntilDate).y) \o <<"-">> \o Itoa(UntilDate.y)

\* C8 amended: a run of handleSkylineCommand changes no command variable but
\* yearRange, and changes yearRange only in a year-to-date run without the web
\* flag whose --until passed validation, to "<startYear>-<endYear>" of the
\* year-to-date period.
C8_OnlyYearRangeRewritten == [][RunStepRewritesYearRangeOnly]_vars

C8_Witness ==
    Finished /\ yearToDate /\ ret = "nil" /\ yearRange # yearRange0

\* C9: when a contributions request has failed, the run is over with that
\* error: the failed request is the last one made, no file name was computed
\* and no STL generator was called, whatever grids were collected before.
C9_FetchFailureAborts ==
    (Len(fetchLog) > Len(allContributions)) =>
        /\ pc = "done" /\ ret = "err:fetch"
        /\ Len(fetchLog) = Len(allContributions) + 1
        /\ stlCalls = <<>> /\ outputPath = <<>>

C9_Witness ==
    /\ ret = "err:fetch" /\ Len(allContributions) >= 1
    /\ Len(fetchLog) = Len(allContributions) + 1

ProfileUser == IF unitIn.targetUser # <<>> THEN unitIn.targetUser ELSE unitIn.authName
ProfileCalled == unitOut # <<>> /\ unitIn.fn = "openGitHubProfile"
ProfileHasUser == unitIn.targetUser # <<>> \/ unitIn.authOk

C12_ClientErrorStopsBrowse ==
    ProfileCalled =>
        /\ (unitIn.targetUser = <<>> /\ ~unitIn.authOk) =>
                (unitOut[1].err # "" /\ unitOut[1].urls = <<>>)
        /\ unitIn.targetUser # <<>> => ~unitOut[1].asked

C12_Witness ==
    /\ ProfileCalled /\ unitIn.targetUser = <<>> /\ ~unitIn.authOk /\ unitIn.browseOk
    /\ unitOut[1].err = "err:network" /\ unitOut[1].asked

\* the number of periods a run of GenerateSkyline is asked for
PeriodsRequested == IF isYTD THEN 1 ELSE endYear - startYear + 1

ArtOnlyStep ==
    /\ artOnly' => (outputPath' = <<>> /\ stlCalls' = <<>>)
    /\ (artOnly /\ pc = "stl") =>
        /\ Len(allContributions) = PeriodsRequested
        /\ Len(fetchLog) = PeriodsRequested
        /\ pc' = "done" /\ ret' = "nil"

\* C13: with --art-only, GenerateSkyline never computes an output file name
\* and never calls GenerateSTL or GenerateSTLRange, and it returns nil once
\* every requested period has been fetched and previewed.
C13_ArtOnlyWritesNoFile == [][ArtOnlyStep]_vars

C13_Witness ==
    /\ artOnly /\ pc = "done" /\ ret = "nil" /\ ~web
    /\ Len(allContributions) >= 2 /\ Len(printed) = Len(allContributions)
    /\ outputPath = <<>> /\ stlCalls = <<>>

\* C14: renderText with a configuration whose voxelScale <= 0 or whose
\* depth <= 0 returns an error and produces no triangles.
C14_TextRejectsInvalidConfig ==
    (unitOut # <<>> /\ unitIn.fn = "renderText"
        /\ (unitIn.voxelScale <= 0 \/ unitIn.depth <= 0)) =>
            (unitOut[1].err # "" /\ Triangles(unitOut[1]) = 0)

C14_Witness ==
    /\ unitOut # <<>> /\ unitIn.fn = "renderText"
    /\ unitIn.voxelScale > 0 /\ unitIn.depth = 0 /\ unitIn.fontOk
    /\ unitIn.covered # {} /\ unitOut[1].err = "ConfigError"

\* C15: renderImage returns an error whenever the image path cannot be opened
\* or decoded as a supported raster image, even when voxelScale and depth are
\* valid.
C15_ImageRejectsBadFile ==
    (unitOut # <<>> /\ unitIn.fn = "renderImage" /\ unitIn.file # "image") =>
        unitOut[1].err # ""

C15_Witness ==
    /\ unitOut # <<>> /\ unitIn.fn = "renderImage" /\ unitIn.file = "missing"
    /\ unitIn.voxelScale > 0 /\ unitIn.depth > 0
    /\ unitOut[1].err = "IOError"

\* C17: convertResponseToGrid returns a grid with exactly one column per week
\* of the response, in the order of the weeks, column i holding exactly the
\* contribution days of week i in their order; no weeks give an empty grid.
C17_GridKeepsWeeksAndDays ==
    (unitOut # <<>> /\ unitIn.fn = "convertResponseToGrid") =>
        LET grid == unitOut[1]
        IN  /\ Len(grid) = Len(unitIn.weeks)
            /\ \A i \in 1..Len(unitIn.weeks) :
                /\ Len(grid[i]) = Len(unitIn.weeks[i].ContributionDays)
                /\ \A d \in 1..Len(grid[i]) : grid[i][d] = unitIn.weeks[i].ContributionDays[d]
            /\ (unitIn.weeks = <<>> => grid = <<>>)

C17_Witness ==
    /\ unitOut # <<>> /\ unitIn.fn = "convertResponseToGrid"
    /\ Len(unitIn.weeks) = 3
    /\ unitIn.weeks[1].ContributionDays = <<0, 1>>
    /\ unitIn.weeks[2].ContributionDays = <<>>
    /\ unitIn.weeks[3].ContributionDays = <<1, 0>>
    /\ unitOut[1] = <<<<0, 1>>, <<>>, <<1, 0>>>>

\* a finished run of GenerateSkyline that fetched every period it was asked for
AllPeriodsFetched ==
    pc = "done" /\ fetchLog # <<>> /\ Len(allContributions) = PeriodsRequested

\* the STL generator was called once, after all fetches, with the generator
\* the number of grids and the YTD mode call for
OneStlCall ==
    /\ Len(stlCalls) = 1
    /\ Len(fetchLog) = PeriodsRequested
    /\ stlCalls[1].fn \in {"GenerateSTL", "GenerateSTLRange"}
    /\ stlCalls[1].fn = "GenerateSTL" <=> (Len(allContributions) = 1 /\ ~isYTD)
    /\ stlCalls[1].fn = "GenerateSTL" => stlCalls[1].grids = <<allContributions[1]>>
    /\ stlCalls[1].fn = "GenerateSTLRange" => stlCalls[1].grids = allContributions

PreviewFailedAndWarned ==
    /\ pc \in {"fetch_range", "fetch_year"}
    /\ Len(allContributions') = Len(allContributions) + 1
    /\ ret' # "err:log"
    /\ printed' = printed

PreviewFailureStep ==
    /\ PreviewFailedAndWarned =>
        /\ ret' = "none"
        /\ allContributions' = Append(allContributions, fetchLog'[Len(fetchLog')])
        /\ pc' = IF Len(allContributions') < PeriodsRequested THEN "fetch_year" ELSE "stl"
    /\ pc \in {"fetch_year", "stl"} =>
        SubSeq(allContributions', 1, Len(allContributions)) = allContributions
    /\ (pc = "stl" /\ ~artOnly) =>
        /\ Len(allContributions) = PeriodsRequested
        /\ Len(stlCalls') = 1 /\ stlCalls'[1].grids = allContributions

\* C19: a failure of the ASCII preview for a period does not abort generation:
\* when the warning is logged, nothing is printed for that period, the
\* remaining periods are still fetched, the period's grid stays in the
\* collected list, and the STL is still generated.
C19_PreviewFailureGoesOn == [][PreviewFailureStep]_vars

C19_Witness ==
    /\ pc = "done" /\ ret = "nil" /\ ~artOnly
    /\ Len(allContributions) >= 2 /\ Len(fetchLog) = Len(allContributions)
    /\ printed = <<>>
    /\ Len(stlCalls) = 1 /\ stlCalls[1].grids = allContributions

\* the contributions were fetched as one continuous 12-month period
FetchedAsOnePeriod ==
    /\ Len(fetchLog) = 1 /\ fetchLog[1].kind = "range"
    /\ fetchLog[1].from = AddDate12(fetchLog[1].to)

\* C20: GenerateSkyline and GenerateOutputFilename take the same decision on
\* YTD mode for the same years and clock: a run that generates its file name
\* names the file "<user>-contributions-ytd-..." if and only if it fetched the
\* contributions as one continuous 12-month period through
\* FetchContributionsForDateRange, and every other run fetches year by year.
C20_SameYTDDecision ==
    /\ (outputPath # <<>> /\ output = <<>>) =>
        (HasPrefix(outputPath, targetUser \o ContributionsInfix \o YtdInfix)
            <=> FetchedAsOnePeriod)
    /\ \A i \in 1..Len(fetchLog) :
        fetchLog[i].kind = "range" => (isYTD /\ FetchedAsOnePeriod)

C20_Witness ==
    /\ pc = "done" /\ ret = "nil" /\ output = <<>> /\ until # <<>>
    /\ FetchedAsOnePeriod /\ fetchLog[1].to # now
    /\ HasPrefix(outputPath, targetUser \o ContributionsInfix \o YtdInfix)

\* the errors that report an invalid --year or --until value
ValueErrors ==
    {"err:until-format", "err:until-future", "err:year-range",
     "err:ytd-end-format", "err:ytd-end-future"}

\* the year range the command holds does not pass ParseYearRange
BadYearRange == ParseYearRange(yearRange, now).err

WebStep ==
    /\ (pc = "handler" /\ web) =>
        /\ pc' \in {"done", "exited"}
        /\ ret' \in {"nil", "exit1", "err:log", "err:network"}
        /\ ret' \in {"nil", "exit1"} <=> profileCall' # <<>>
        /\ ret' = "nil" => (profileCall'[1].err = "" /\ Len(profileCall'[1].urls) = 1)
        /\ ret' = "exit1" => profileCall'[1].err # ""
        /\ yearRange' = yearRange
        /\ UNCHANGED genVars
    /\ web' => (pc' \notin GenPcs /\ ret' \notin ValueErrors /\ fetchLog' = <<>>)
    /\ ~web' => profileCall' = <<>>

\* C21: with the web flag set, handleSkylineCommand ends right after
\* openGitHubProfile: it computes no year-to-date period, neither parses nor
\* validates the year range, and never calls GenerateSkyline, so an invalid
\* --year or --until value is never reported in web mode.
C21_WebOnlyOpensProfile == [][WebStep]_vars

C21_Witness ==
    /\ web /\ pc = "done" /\ ret = "nil" /\ runs = 1
    /\ "year" \in changed /\ BadYearRange /\ yearRange = yearRange0
    /\ Len(profileCall) = 1 /\ Len(profileCall[1].urls) = 1

====
